---- MODULE Spec2Model ----
(***************************************************************************)
(* Model of compiler/jit/jit_compiler.cc: the JIT compiler facade          *)
(* (JitCompiler), its option resolver (JitCompiler::ParseCompilerOptions)  *)
(* and the C entry points jit_load / jit_unload / jit_compile_method /     *)
(* jit_update_options.                                                     *)
(*                                                                         *)
(* Three specifications share the variables:                               *)
(*   Spec      the life cycle of one JitCompiler, one entry point at a     *)
(*             time, every entry point one action;                         *)
(*   SpecScan  the option scan of ParseCompilerOptions (lines 73-105),     *)
(*             one token per step, over drawn option vectors;              *)
(*   SpecConc  compile threads and a reconfiguring thread, every           *)
(*             statement of CompileMethod / ParseCompilerOptions a step.   *)
(***************************************************************************)
EXTENDS Integers, Sequences, FiniteSets, TLC

----------------------------------------------------------------------------
(* Bounds *)

\* longest option vector of the runtime in Spec
MaxTokens == 1
\* longest option vector in SpecScan
MaxScanTokens == 3
\* longest option vector in SpecConc
MaxConcTokens == 1
\* jit_update_options calls per JitCompiler in Spec
MaxUpdates == 2
\* jit_update_options calls in SpecConc
MaxConcUpdates == 1
\* compile threads of the runtime's thread pool in SpecConc
NumThreads == 2
\* jit_compile_method calls per thread in SpecConc
MaxCompiles == 1
\* jit_types_loaded calls in a behaviour
MaxTypesLoaded == 2

----------------------------------------------------------------------------
(* Values *)

\* a null std::unique_ptr<const InstructionSetFeatures>
Null == [variant |-> "nullptr", overlay |-> << >>]

\* InstructionSet values; kRuntimeISA is one of HostISAs
HostISAs == {"kArm", "kX86_64"}

\* kRuntimeISA of a build for an architecture ART has no backend for: an
\* instruction set FromVariant knows no variant of, "default" included
UnsupportedISAs == {"kNone"}

\* option prefixes
VariantPrefix == "--instruction-set-variant="
FeaturesPrefix == "--instruction-set-features="
InlinePrefix == "--inline-max-code-units="

Tok(k, v) == [key |-> k, val |-> v]

\* options the structured parser of CompilerOptions knows
BaselineTokens ==
    { Tok("--debuggable", ""), Tok("--compile-pic", ""),
      Tok("--generate-debug-info", ""), Tok("--no-generate-debug-info", ""),
      Tok(InlinePrefix, "7"), Tok(InlinePrefix, "abc") }

VariantTokens == { Tok(VariantPrefix, "silvermont"), Tok(VariantPrefix, "cortex-a53") }

FeatureTokens ==
    { Tok(FeaturesPrefix, "popcnt"), Tok(FeaturesPrefix, "-popcnt"),
      Tok(FeaturesPrefix, "bogus") }

ScanTokens == VariantTokens \cup FeatureTokens

\* the options drawn in Spec and SpecConc: every baseline option, and one
\* variant (known on x86-64 only), one known and one unknown feature
LifecycleTokens ==
    BaselineTokens \cup { Tok(VariantPrefix, "silvermont"),
                          Tok(FeaturesPrefix, "popcnt"), Tok(FeaturesPrefix, "bogus") }

SeqsUpTo(S, n) == UNION { [1..k -> S] : k \in 0..n }

----------------------------------------------------------------------------
(* CompilerOptions (driver/compiler_options.h), as jit_compiler.cc uses it *)

kDefaultInlineMaxCodeUnits == -1

\* the instruction set a CompilerOptions is constructed with
DefaultInstructionSet(runtimeISA) ==
    IF runtimeISA = "kArm" THEN "kThumb2" ELSE runtimeISA

\* new CompilerOptions()
NewCompilerOptions(runtimeISA) ==
    [ instruction_set            |-> DefaultInstructionSet(runtimeISA),
      debuggable                 |-> FALSE,
      compile_pic                |-> FALSE,
      inline_max_code_units      |-> kDefaultInlineMaxCodeUnits,
      generate_debug_info        |-> FALSE,
      instruction_set_features   |-> Null,
      compiling_with_core_image  |-> FALSE ]

\* the unsigned value of an option argument, -1 when it is not a number
ParseUint(s) ==
    CASE s = "0" -> 0
      [] s = "7" -> 7
      [] s = "32" -> 32
      [] OTHER -> -1

\* one option of the structured parse: the field it sets, or a failure
ReadOption(r, tok, ignore_unrecognized) ==
    IF ~r.ok THEN r
    ELSE CASE tok.key = "--debuggable" ->
                [r EXCEPT !.co.debuggable = TRUE]
           [] tok.key = "--compile-pic" ->
                [r EXCEPT !.co.compile_pic = TRUE]
           [] tok.key = "--generate-debug-info" ->
                [r EXCEPT !.co.generate_debug_info = TRUE]
           [] tok.key = "--no-generate-debug-info" ->
                [r EXCEPT !.co.generate_debug_info = FALSE]
           [] tok.key = InlinePrefix ->
                IF ParseUint(tok.val) >= 0
                THEN [r EXCEPT !.co.inline_max_code_units = ParseUint(tok.val)]
                ELSE [r EXCEPT !.ok = FALSE]
           [] OTHER ->
                IF ignore_unrecognized THEN r ELSE [r EXCEPT !.ok = FALSE]

RECURSIVE ReadOptions(_, _, _)
ReadOptions(r, toks, ignore_unrecognized) ==
    IF toks = << >> THEN r
    ELSE ReadOptions(ReadOption(r, Head(toks), ignore_unrecognized),
                     Tail(toks), ignore_unrecognized)

\* CompilerOptions::ParseCompilerOptions(options, ignore_unrecognized, &error_msg):
\* the fields named by the options are set, every other field is left as it is
CompilerOptionsParse(co, toks, ignore_unrecognized) ==
    ReadOptions([ok |-> TRUE, co |-> co], toks, ignore_unrecognized)

\* the budget left as the last run resolved it
SetInlineMaxCodeUnits_Skipped(co, units) == co

\* line 47, made before the options are parsed
SetInlineMaxCodeUnits(co, units) == [co EXCEPT !.inline_max_code_units = units]

\* SetNonPic left out
SetNonPic_Skipped(co) == co

SetNonPic(co) == [co EXCEPT !.compile_pic = FALSE]

SetDebuggable(co, d) == [co EXCEPT !.debuggable = d]

----------------------------------------------------------------------------
(* InstructionSetFeatures (arch/instruction_set_features.h)                *)

\* the variants FromVariant knows for an instruction set
KnownVariants(is) ==
    CASE is = "kThumb2" -> {"default", "cortex-a53"}
      [] is = "kArm"    -> {"default", "cortex-a53"}
      [] is = "kX86_64" -> {"default", "silvermont"}
      [] OTHER          -> {}

\* InstructionSetFeatures::FromVariant(isa, variant, &error_msg)
FromVariant(is, variant) ==
    IF variant \in KnownVariants(is)
    THEN [variant |-> variant, overlay |-> << >>]
    ELSE Null

\* the feature names AddFeaturesFromString accepts
KnownFeatures == {"popcnt", "-popcnt"}

\* InstructionSetFeatures::AddFeaturesFromString(str, &error_msg)
AddFeaturesFromString(isf, str) ==
    IF str \in KnownFeatures
    THEN [isf EXCEPT !.overlay = Append(@, str)]
    ELSE Null

\* InstructionSetFeatures::FromCppDefines()
FromCppDefines == [variant |-> "cpp-defines", overlay |-> << >>]

\* the value of a feature set after a dereference of nullptr (line 95-96)
NullDeref == [variant |-> "null-dereference", overlay |-> << >>]

\* CompilerDriver::IsCoreImageFilename(runtime->GetImageLocation())
ImageLocations == {"/system/framework/core.art", "/system/framework/boot.art"}

IsCoreImageFilename(location) == location = "/system/framework/core.art"

----------------------------------------------------------------------------
(* JitCompiler::ParseCompilerOptions, statement by statement               *)

\* lines 61-65
InheritDebuggable(co, live) ==
    IF ~co.debuggable THEN SetDebuggable(co, live) ELSE co

\* the DCHECK_EQ without the Thumb2 case
IsaCheck_NoThumb2(is, runtimeISA) == is = runtimeISA

\* lines 67-72: the DCHECK_EQ on the instruction set
IsaCheck(is, runtimeISA) ==
    IF runtimeISA = "kArm" THEN is = "kThumb2" ELSE is = runtimeISA

\* the missing baseline taken from the build instead of the "default" variant
FeaturesBase_CppDefines(isf, is) ==
    IF isf = Null THEN FromCppDefines ELSE isf

\* lines 88-94: the feature set a features option is added to
FeaturesBase(isf, is) ==
    IF isf = Null THEN FromVariant(is, "default") ELSE isf

\* the loop body without lines 88-94: a features option is added to isf as it is
ScanOption_NoDefault(isf, is, tok) ==
    IF isf = NullDeref THEN NullDeref
    ELSE IF tok.key = VariantPrefix THEN FromVariant(is, tok.val)
    ELSE IF tok.key = FeaturesPrefix
         THEN IF isf = Null THEN NullDeref ELSE AddFeaturesFromString(isf, tok.val)
    ELSE isf

\* lines 75-100: one iteration of the loop over the runtime's options
ScanOption(isf, is, tok) ==
    IF isf = NullDeref THEN NullDeref
    ELSE IF tok.key = VariantPrefix THEN FromVariant(is, tok.val)
    ELSE IF tok.key = FeaturesPrefix
         THEN IF FeaturesBase(isf, is) = Null
              THEN NullDeref
              ELSE AddFeaturesFromString(FeaturesBase(isf, is), tok.val)
    ELSE isf

\* lines 73-101: the loop
RECURSIVE ScanOptions(_, _, _)
ScanOptions(isf, is, toks) ==
    IF toks = << >> THEN isf
    ELSE ScanOptions(ScanOption(isf, is, Head(toks)), is, Tail(toks))

\* lines 102-104
FeaturesOrCppDefines(isf) ==
    IF isf = Null THEN FromCppDefines ELSE isf

\* lines 105-107
StoreFeatures(co, isf, location) ==
    [co EXCEPT !.instruction_set_features = FeaturesOrCppDefines(isf),
               !.compiling_with_core_image = IsCoreImageFilename(location)]

\* lines 45-65: up to the debuggable default, given a successful structured parse
ApplyBaseline(parsed, live) ==
    InheritDebuggable(SetNonPic(parsed), live)

\* a failed structured parse logged and the run carried on
ParseFailureIsFatal_Warning(ok) == FALSE

\* lines 52-57: LOG(FATAL) when CompilerOptions::ParseCompilerOptions fails
ParseFailureIsFatal(ok) == ~ok

\* line 110: jit_logger_.reset(new JitLogger())
ResetLogger(logger) == "unopened"

\* OpenLog left out
OpenLog_Skipped(logger) == logger

\* line 111: jit_logger_->OpenLog()
OpenLog(logger) == "open"

\* the held logger left as it is whatever the flag says
OpenLogger_Never(co, logger) == logger

\* lines 109-112
OpenLogger(co, logger) ==
    IF co.generate_debug_info THEN OpenLog(ResetLogger(logger)) ELSE logger

\* a JitLogger that is destroyed by jit_logger_.reset() while its log is open
DropsOpenLog(co, logger) ==
    IF co.generate_debug_info /\ logger = "open" THEN 1 ELSE 0

\* lines 44-113: a whole run on the held options co and logger
ParseCompilerOptions(co, logger, toks, live, location, runtimeISA) ==
    LET injected == SetInlineMaxCodeUnits(co, kDefaultInlineMaxCodeUnits)
        parsed   == CompilerOptionsParse(injected, toks, TRUE)
        based    == ApplyBaseline(parsed.co, live)
        isf      == ScanOptions(Null, based.instruction_set, toks)
        stored   == StoreFeatures(based, isf, location)
    IN  IF ParseFailureIsFatal(parsed.ok)
        THEN [aborted |-> TRUE, co |-> injected, logger |-> logger, dropped |-> 0]
        ELSE IF ~IsaCheck(based.instruction_set, runtimeISA) \/ isf = NullDeref
        THEN [aborted |-> TRUE, co |-> based, logger |-> logger, dropped |-> 0]
        ELSE [aborted |-> FALSE, co |-> stored,
              logger |-> OpenLogger(stored, logger),
              dropped |-> DropsOpenLog(stored, logger)]

----------------------------------------------------------------------------
(* The CompilerDriver the constructor builds *)

\* the driver left as built: it shares the storage of identical code
DedupeEnabledAtConstruction_Default == "true"

\* lines 172-178: compiler_driver_.reset(new CompilerDriver(...)), then
\* SetDedupeEnabled(false)
DedupeEnabledAtConstruction == "false"

\* the code every method of the model compiles to
GeneratedCode == "code"

\* the storage the driver keeps a method's code in: its own without dedupe,
\* the one shared by all byte-identical code with it
CodeStorage(dedupe, method, code) ==
    [owner |-> IF dedupe = "false" THEN method ELSE << 0, 0 >>, code |-> code]

\* the method's entry added to those kept, when JitCompile succeeded
AddCompiledMethod(kept, dedupe, method, code, result) ==
    IF result
    THEN kept \cup { [method |-> method, storage |-> CodeStorage(dedupe, method, code)] }
    ELSE kept

----------------------------------------------------------------------------
(* State *)

VARIABLES
    \* the runtime (Runtime::Current())
    kRuntimeISA,        \* the instruction set the runtime is built for
    java_debuggable,    \* Runtime::IsJavaDebuggable()
    image_location,     \* Runtime::GetImageLocation()
    runtime_options,    \* Runtime::GetCompilerOptions(), as last read by a run
    native_debug_info,  \* what AddNativeDebugInfoForJit has registered, in order
    types_loaded,       \* jit_types_loaded calls so far
    \* the JitCompiler behind the handle
    handle,             \* "none" before jit_load, "live", "deleted" after jit_unload
    aborted,            \* LOG(FATAL) or a failed DCHECK has ended the process
    compiler_options_,  \* *compiler_options_
    jit_logger_,        \* state of the JitLogger jit_logger_ holds
    dedupe_enabled,     \* compiler_driver_'s dedupe switch, "no-driver" before it exists
    updates,            \* jit_update_options calls so far
    logs_dropped,       \* JitLoggers destroyed with their log open
    run_debuggable,     \* IsJavaDebuggable() at lines 63-64 of the last run
    \* the run of ParseCompilerOptions in progress
    upc,                \* the statement the run is at, "idle" between runs
    instruction_set_features,  \* the local of lines 73-105
    scan_pos,           \* the option the loop of line 74 is at
    \* the compile threads
    serialised,         \* the caller keeps jit_update_options apart from compiles
    cpc,                \* per thread: the statement of CompileMethod it is at
    success,            \* per thread: the local success
    used,               \* per thread: what JitCompile was passed and read
    logger,             \* per thread: the phases of the local TimingLogger
    calls,              \* per thread: what the current call did, in order
    compiles,           \* per thread: jit_compile_method calls begun
    retval,             \* per thread: the value the last call returned
    compiled_methods,   \* the code the driver keeps for the methods compiled
    timings             \* the TimingLoggers given to Jit::AddTimingLogger

debugVars == << native_debug_info, types_loaded >>
hostVars == << kRuntimeISA, java_debuggable, image_location, runtime_options,
               debugVars >>
facadeVars == << handle, aborted, compiler_options_, jit_logger_, dedupe_enabled,
                 updates, logs_dropped, run_debuggable >>
runVars == << upc, instruction_set_features, scan_pos >>
threadVars == << serialised, cpc, success, used, logger, calls, compiles, retval,
                 compiled_methods, timings >>
vars == << hostVars, facadeVars, runVars, threadVars >>

Threads == 1..NumThreads

\* a thread that has passed nothing to JitCompile yet
NoUse == [options |-> NewCompilerOptions("kNone"), logger |-> "none"]

\* the state before jit_load, for a runtime built for isa
InitFacade ==
    /\ handle = "none"
    /\ aborted = FALSE
    /\ compiler_options_ = NewCompilerOptions(kRuntimeISA)
    /\ jit_logger_ = "nullptr"
    /\ dedupe_enabled = "no-driver"
    /\ updates = 0
    /\ logs_dropped = 0
    /\ run_debuggable = FALSE

InitDebugInfo ==
    /\ native_debug_info = << >>
    /\ types_loaded = 0

InitHost ==
    /\ InitDebugInfo
    /\ kRuntimeISA \in HostISAs
    /\ java_debuggable \in BOOLEAN
    /\ image_location \in ImageLocations
    /\ runtime_options = << >>

InitRun ==
    /\ upc = "idle"
    /\ instruction_set_features = Null
    /\ scan_pos = 0

InitThreads ==
    /\ cpc = [t \in Threads |-> "idle"]
    /\ success = [t \in Threads |-> FALSE]
    /\ used = [t \in Threads |-> NoUse]
    /\ logger = [t \in Threads |-> << >>]
    /\ calls = [t \in Threads |-> << >>]
    /\ compiles = [t \in Threads |-> 0]
    /\ retval = [t \in Threads |-> FALSE]
    /\ compiled_methods = {}
    /\ timings = << >>

----------------------------------------------------------------------------
(* Spec: the entry points that build and replace the configuration         *)

Init ==
    /\ InitHost /\ InitFacade /\ InitRun /\ InitThreads
    /\ serialised = TRUE

\* the effect of a whole run of ParseCompilerOptions on the JitCompiler
RunParseCompilerOptions(toks) ==
    \E r \in { ParseCompilerOptions(compiler_options_, jit_logger_, toks,
                                    java_debuggable, image_location, kRuntimeISA) } :
        /\ runtime_options' = toks
        /\ run_debuggable' = java_debuggable
        /\ aborted' = r.aborted
        /\ compiler_options_' = r.co
        /\ jit_logger_' = r.logger
        /\ logs_dropped' = logs_dropped + r.dropped

\* jit_load -> JitCompiler::Create -> JitCompiler::JitCompiler (lines 115-121, 40-42, 168-179)
JitLoad ==
    /\ handle = "none" /\ ~aborted
    /\ \E toks \in SeqsUpTo(LifecycleTokens, MaxTokens) : RunParseCompilerOptions(toks)
    /\ handle' = IF aborted' THEN "none" ELSE "live"
    /\ dedupe_enabled' = IF aborted' THEN dedupe_enabled
                                    ELSE DedupeEnabledAtConstruction
    /\ UNCHANGED << kRuntimeISA, java_debuggable, image_location, debugVars, updates >>
    /\ UNCHANGED << runVars, threadVars >>

\* jit_update_options (lines 156-160)
JitUpdateOptions ==
    /\ handle = "live" /\ ~aborted
    /\ updates < MaxUpdates
    /\ \E toks \in SeqsUpTo(LifecycleTokens, MaxTokens) : RunParseCompilerOptions(toks)
    /\ updates' = updates + 1
    /\ UNCHANGED << kRuntimeISA, java_debuggable, image_location, debugVars, handle,
                    dedupe_enabled >>
    /\ UNCHANGED << runVars, threadVars >>

\* jit_unload -> JitCompiler::~JitCompiler (lines 123-126, 181-185)
JitUnload ==
    /\ handle = "live" /\ ~aborted
    /\ handle' = "deleted"
    /\ IF compiler_options_.generate_debug_info
       THEN IF jit_logger_ = "nullptr"
            THEN aborted' = TRUE /\ UNCHANGED jit_logger_
            ELSE jit_logger_' = "closed" /\ UNCHANGED aborted
       ELSE UNCHANGED << jit_logger_, aborted >>
    /\ UNCHANGED << hostVars, compiler_options_, dedupe_enabled, updates,
                    logs_dropped, run_debuggable >>
    /\ UNCHANGED << runVars, threadVars >>

\* the registration made whatever the options say
RegistersTypes_Always(co) == TRUE

\* line 141: if (compiler_options.GetGenerateDebugInfo())
RegistersTypes(co) == co.generate_debug_info

\* lines 147-152: what AddNativeDebugInfoForJit is passed for the types, the
\* ELF file and the feature set left out
TypesDebugInfo(co) ==
    [code_ptr |-> "nullptr", instruction_set |-> co.instruction_set]

\* the entry added to those registered; none is ever taken out
AddNativeDebugInfoForJit(registered, entry) == Append(registered, entry)

\* jit_types_loaded (lines 136-154)
JitTypesLoaded ==
    /\ handle = "live" /\ ~aborted
    /\ types_loaded < MaxTypesLoaded
    /\ types_loaded' = types_loaded + 1
    /\ native_debug_info' =
          IF RegistersTypes(compiler_options_)
          THEN AddNativeDebugInfoForJit(native_debug_info,
                                        TypesDebugInfo(compiler_options_))
          ELSE native_debug_info
    /\ UNCHANGED << kRuntimeISA, java_debuggable, image_location, runtime_options >>
    /\ UNCHANGED << facadeVars, runVars, threadVars >>

\* the runtime changes its debuggable state (Runtime::SetJavaDebuggable)
SetJavaDebuggable ==
    /\ ~aborted /\ handle # "deleted"
    /\ java_debuggable' = ~java_debuggable
    /\ UNCHANGED << kRuntimeISA, image_location, runtime_options, debugVars >>
    /\ UNCHANGED << facadeVars, runVars, threadVars >>

Next ==
    \/ JitLoad \/ JitUpdateOptions \/ JitUnload \/ JitTypesLoaded
    \/ SetJavaDebuggable

Spec == Init /\ [][Next]_vars

----------------------------------------------------------------------------
(* SpecScan: lines 73-107 of a run, one option of the loop per step        *)

\* the options drawn in SpecScan: the scanned ones and one the loop skips
ScanAlphabet == ScanTokens \cup { Tok("--debuggable", "") }

\* a JitCompiler under construction whose run has reached line 73, in a
\* runtime built for one of isas
InitScanOn(isas) ==
    /\ InitDebugInfo
    /\ kRuntimeISA \in isas
    /\ java_debuggable = FALSE
    /\ image_location \in ImageLocations
    /\ runtime_options \in SeqsUpTo(ScanAlphabet, MaxScanTokens)
    /\ handle = "none"
    /\ aborted = FALSE
    /\ compiler_options_ =
          ApplyBaseline(CompilerOptionsParse(
              SetInlineMaxCodeUnits(NewCompilerOptions(kRuntimeISA),
                                    kDefaultInlineMaxCodeUnits),
              runtime_options, TRUE).co, java_debuggable)
    /\ jit_logger_ = "nullptr"
    /\ dedupe_enabled = "no-driver"
    /\ updates = 0
    /\ logs_dropped = 0
    /\ run_debuggable = java_debuggable
    /\ upc = "scan"
    /\ instruction_set_features = Null
    /\ scan_pos = 1
    /\ InitThreads
    /\ serialised = TRUE

InitScan == InitScanOn(HostISAs)

\* the option the loop is at
CurrentOption == runtime_options[scan_pos]

\* the local instruction_set_features after the iteration for CurrentOption
AfterCurrentOption ==
    ScanOption(instruction_set_features, compiler_options_.instruction_set,
               CurrentOption)

\* lines 77-84
ScanVariantOption ==
    /\ upc = "scan" /\ ~aborted
    /\ scan_pos <= Len(runtime_options)
    /\ CurrentOption.key = VariantPrefix
    /\ instruction_set_features' = AfterCurrentOption
    /\ aborted' = (instruction_set_features' = NullDeref)
    /\ scan_pos' = scan_pos + 1
    /\ UNCHANGED << hostVars, handle, compiler_options_, jit_logger_, dedupe_enabled,
                    updates, logs_dropped, run_debuggable, upc, threadVars >>

\* lines 85-99
ScanFeaturesOption ==
    /\ upc = "scan" /\ ~aborted
    /\ scan_pos <= Len(runtime_options)
    /\ CurrentOption.key = FeaturesPrefix
    /\ instruction_set_features' = AfterCurrentOption
    /\ aborted' = (instruction_set_features' = NullDeref)
    /\ scan_pos' = scan_pos + 1
    /\ UNCHANGED << hostVars, handle, compiler_options_, jit_logger_, dedupe_enabled,
                    updates, logs_dropped, run_debuggable, upc, threadVars >>

\* lines 74-76, 100: an option with neither prefix
ScanOtherOption ==
    /\ upc = "scan" /\ ~aborted
    /\ scan_pos <= Len(runtime_options)
    /\ CurrentOption.key \notin {VariantPrefix, FeaturesPrefix}
    /\ instruction_set_features' = AfterCurrentOption
    /\ scan_pos' = scan_pos + 1
    /\ UNCHANGED << hostVars, handle, aborted, compiler_options_, jit_logger_,
                    dedupe_enabled, updates, logs_dropped, run_debuggable, upc,
                    threadVars >>

\* lines 102-107
ScanStore ==
    /\ upc = "scan" /\ ~aborted
    /\ scan_pos = Len(runtime_options) + 1
    /\ compiler_options_' =
          StoreFeatures(compiler_options_, instruction_set_features, image_location)
    /\ instruction_set_features' = Null
    /\ upc' = "stored"
    /\ UNCHANGED << hostVars, handle, aborted, jit_logger_, dedupe_enabled, updates,
                    logs_dropped, run_debuggable, scan_pos, threadVars >>

NextScan == ScanVariantOption \/ ScanFeaturesOption \/ ScanOtherOption \/ ScanStore

SpecScan == InitScan /\ [][NextScan]_vars

\* the same loop for every outcome of FromVariant(instruction_set, "default"):
\* the instruction sets that have the variant and one that has not
InitScanAnyIsa == InitScanOn(HostISAs \cup UnsupportedISAs)

SpecScanAnyIsa == InitScanAnyIsa /\ [][NextScan]_vars

----------------------------------------------------------------------------
(* JitCompiler::CompileMethod, statement by statement                      *)

TimingLoggerName == "JIT compiler timing logger"

\* the backend's result dropped: success keeps its initial value
SuccessAfterJitCompile_Dropped(before, result) == before

\* lines 203-204: success = ...->JitCompile(...)
SuccessAfterJitCompile(before, result) == result

\* the trim made only after a successful JitCompile
TrimsMaps_OnSuccess(ok) == ok

\* lines 207-212: whether TrimMaps is called, given the local success
TrimsMaps(ok) == TRUE

\* a failed compile returning straight after the trim
AfterTrimMaps_ReturnsOnFailure(ok) == IF ok THEN "report" ELSE "return"

\* lines 212-214: the statement that follows the TrimMaps block, given the
\* local success
AfterTrimMaps(ok) == "report"

\* what JitCompile is passed and reads: the options behind compiler_options_
\* and the logger behind jit_logger_.get()
Passed(co, jl) == [options |-> co, logger |-> jl]

----------------------------------------------------------------------------
(* SpecConc: compile threads and a thread that calls jit_update_options    *)

\* the options drawn in SpecConc
ConcTokens ==
    { Tok("--compile-pic", ""), Tok("--generate-debug-info", ""), Tok(InlinePrefix, "abc") }

\* the state jit_load leaves, for a runtime whose options it resolved
InitConc ==
    /\ kRuntimeISA \in HostISAs
    /\ java_debuggable = FALSE
    /\ image_location = "/system/framework/boot.art"
    /\ InitDebugInfo
    /\ runtime_options \in SeqsUpTo(ConcTokens, MaxConcTokens)
    /\ handle = "live"
    /\ aborted = FALSE
    /\ \E r \in { ParseCompilerOptions(NewCompilerOptions(kRuntimeISA), "nullptr",
                                       runtime_options, java_debuggable,
                                       image_location, kRuntimeISA) } :
          /\ ~r.aborted
          /\ compiler_options_ = r.co
          /\ jit_logger_ = r.logger
    /\ dedupe_enabled = DedupeEnabledAtConstruction
    /\ updates = 0
    /\ logs_dropped = 0
    /\ run_debuggable = java_debuggable
    /\ InitRun /\ InitThreads
    /\ serialised \in BOOLEAN

ThreadsQuiet == \A t \in Threads : cpc[t] \in {"idle", "returned"}

\* jit_update_options entered; line 47
UpdateBegin ==
    /\ handle = "live" /\ ~aborted
    /\ upc = "idle" /\ updates < MaxConcUpdates
    /\ serialised => ThreadsQuiet
    /\ \E toks \in SeqsUpTo(ConcTokens, MaxConcTokens) : runtime_options' = toks
    /\ compiler_options_' =
          SetInlineMaxCodeUnits(compiler_options_, kDefaultInlineMaxCodeUnits)
    /\ updates' = updates + 1
    /\ upc' = "parse"
    /\ UNCHANGED << kRuntimeISA, java_debuggable, image_location, debugVars, handle, aborted,
                    jit_logger_, dedupe_enabled, logs_dropped, run_debuggable,
                    instruction_set_features, scan_pos, threadVars >>

\* lines 49-57
UpdateParse ==
    /\ upc = "parse" /\ ~aborted
    /\ \E r \in { CompilerOptionsParse(compiler_options_, runtime_options, TRUE) } :
          IF ParseFailureIsFatal(r.ok)
          THEN aborted' = TRUE /\ UNCHANGED << compiler_options_, upc >>
          ELSE compiler_options_' = r.co /\ upc' = "nonpic" /\ UNCHANGED aborted
    /\ UNCHANGED << hostVars, handle, jit_logger_, dedupe_enabled, updates,
                    logs_dropped, run_debuggable, instruction_set_features, scan_pos,
                    threadVars >>

\* lines 58-59
UpdateSetNonPic ==
    /\ upc = "nonpic" /\ ~aborted
    /\ compiler_options_' = SetNonPic(compiler_options_)
    /\ upc' = "debuggable"
    /\ UNCHANGED << hostVars, handle, aborted, jit_logger_, dedupe_enabled, updates,
                    logs_dropped, run_debuggable, instruction_set_features, scan_pos,
                    threadVars >>

\* lines 61-65
UpdateDebuggable ==
    /\ upc = "debuggable" /\ ~aborted
    /\ compiler_options_' = InheritDebuggable(compiler_options_, java_debuggable)
    /\ run_debuggable' = java_debuggable
    /\ upc' = "scan"
    /\ UNCHANGED << hostVars, handle, aborted, jit_logger_, dedupe_enabled, updates,
                    logs_dropped, instruction_set_features, scan_pos, threadVars >>

\* lines 67-107: the DCHECK, the loop over a local, and the store of its result
UpdateScanAndStore ==
    /\ upc = "scan" /\ ~aborted
    /\ \E isf \in { ScanOptions(Null, compiler_options_.instruction_set,
                                runtime_options) } :
          IF IsaCheck(compiler_options_.instruction_set, kRuntimeISA) /\ isf # NullDeref
          THEN /\ compiler_options_' =
                     StoreFeatures(compiler_options_, isf, image_location)
               /\ upc' = "logger"
               /\ UNCHANGED aborted
          ELSE /\ aborted' = TRUE
               /\ UNCHANGED << compiler_options_, upc >>
    /\ UNCHANGED << hostVars, handle, jit_logger_, dedupe_enabled, updates,
                    logs_dropped, run_debuggable, instruction_set_features, scan_pos,
                    threadVars >>

\* lines 109-110, and the return when no debug info is generated
UpdateResetLogger ==
    /\ upc = "logger" /\ ~aborted
    /\ IF compiler_options_.generate_debug_info
       THEN /\ jit_logger_' = ResetLogger(jit_logger_)
            /\ logs_dropped' = logs_dropped + DropsOpenLog(compiler_options_, jit_logger_)
            /\ upc' = "openlog"
       ELSE /\ upc' = "idle"
            /\ UNCHANGED << jit_logger_, logs_dropped >>
    /\ UNCHANGED << hostVars, handle, aborted, compiler_options_, dedupe_enabled,
                    updates, run_debuggable, instruction_set_features, scan_pos,
                    threadVars >>

\* lines 111-113
UpdateOpenLog ==
    /\ upc = "openlog" /\ ~aborted
    /\ jit_logger_' = OpenLog(jit_logger_)
    /\ upc' = "idle"
    /\ UNCHANGED << hostVars, handle, aborted, compiler_options_, dedupe_enabled,
                    updates, logs_dropped, run_debuggable, instruction_set_features,
                    scan_pos, threadVars >>

\* jit_compile_method entered; lines 128-134, 187-205: the backend is called
\* and succeeds or fails
CompileCodegen(t) ==
    /\ handle = "live" /\ ~aborted
    /\ cpc[t] \in {"idle", "returned"} /\ compiles[t] < MaxCompiles
    /\ serialised => upc = "idle"
    /\ \E result \in BOOLEAN :
          /\ success' = [success EXCEPT ![t] = SuccessAfterJitCompile(FALSE, result)]
          /\ calls' = [calls EXCEPT ![t] =
                          << [call |-> "JitCompile", by |-> t, result |-> result] >>]
          /\ compiled_methods' =
                AddCompiledMethod(compiled_methods, dedupe_enabled,
                                  << t, compiles[t] + 1 >>, GeneratedCode, result)
    /\ used' = [used EXCEPT ![t] = Passed(compiler_options_, jit_logger_)]
    /\ logger' = [logger EXCEPT ![t] = << "Compiling" >>]
    /\ compiles' = [compiles EXCEPT ![t] = @ + 1]
    /\ cpc' = [cpc EXCEPT ![t] = "trim"]
    /\ UNCHANGED << hostVars, facadeVars, runVars, serialised, retval, timings >>

\* lines 207-212
CompileTrimMaps(t) ==
    /\ cpc[t] = "trim" /\ ~aborted
    /\ IF TrimsMaps(success[t])
       THEN /\ calls' = [calls EXCEPT ![t] =
                            Append(@, [call |-> "TrimMaps", by |-> t, result |-> TRUE])]
            /\ logger' = [logger EXCEPT ![t] = Append(@, "TrimMaps")]
       ELSE UNCHANGED << calls, logger >>
    /\ cpc' = [cpc EXCEPT ![t] = AfterTrimMaps(success[t])]
    /\ UNCHANGED << hostVars, facadeVars, runVars, serialised, success, used, compiles,
                    retval, compiled_methods, timings >>

\* line 214
CompileAddTimingLogger(t) ==
    /\ cpc[t] = "report" /\ ~aborted
    /\ timings' = Append(timings, [name |-> TimingLoggerName, phases |-> logger[t],
                                   thread |-> t, call |-> compiles[t]])
    /\ calls' = [calls EXCEPT ![t] =
                    Append(@, [call |-> "AddTimingLogger", by |-> t, result |-> TRUE])]
    /\ cpc' = [cpc EXCEPT ![t] = "return"]
    /\ UNCHANGED << hostVars, facadeVars, runVars, serialised, success, used, logger,
                    compiles, retval, compiled_methods >>

\* line 215
CompileReturn(t) ==
    /\ cpc[t] = "return" /\ ~aborted
    /\ retval' = [retval EXCEPT ![t] = success[t]]
    /\ cpc' = [cpc EXCEPT ![t] = "returned"]
    /\ UNCHANGED << hostVars, facadeVars, runVars, serialised, success, used, logger,
                    calls, compiles, compiled_methods, timings >>

NextConc ==
    \/ UpdateBegin \/ UpdateParse \/ UpdateSetNonPic \/ UpdateDebuggable
    \/ UpdateScanAndStore \/ UpdateResetLogger \/ UpdateOpenLog
    \/ \E t \in Threads :
          \/ CompileCodegen(t) \/ CompileTrimMaps(t)
          \/ CompileAddTimingLogger(t) \/ CompileReturn(t)

SpecConc == InitConc /\ [][NextConc]_vars

\* a thread inside CompileMethod goes on running: once JitCompile has returned
\* each of its remaining statements is executed
CompileFairness ==
    \A t \in Threads :
        /\ WF_vars(CompileTrimMaps(t))
        /\ WF_vars(CompileAddTimingLogger(t))
        /\ WF_vars(CompileReturn(t))

\* the states of InitConc on one instruction set, jit_load having found no
\* option: neither matters to what a thread inside CompileMethod does next
InitFairConc ==
    /\ InitConc
    /\ kRuntimeISA = "kX86_64"
    /\ runtime_options = << >>

FairSpecConc == InitFairConc /\ [][NextConc]_vars /\ CompileFairness

----------------------------------------------------------------------------
(* Properties of Spec *)

HasOption(toks, key) == \E i \in 1..Len(toks) : toks[i].key = key

\* the structured parse of the options of the last run succeeds
BaselineParses(toks) ==
    \A i \in 1..Len(toks) : toks[i].key = InlinePrefix => toks[i].val \in {"0", "7", "32"}

\* a run of ParseCompilerOptions has been made
HasRun == handle # "none" \/ aborted

\* C1: when the structured parse of the options succeeds, the run (in jit_load
\* or in a jit_update_options) does not abort and leaves instruction_set equal
\* to kRuntimeISA, or to kThumb2 when kRuntimeISA is kArm.
C1_NoAbortAndHostIsa ==
    (HasRun /\ BaselineParses(runtime_options)) =>
        /\ ~aborted
        /\ compiler_options_.instruction_set =
              (IF kRuntimeISA = "kArm" THEN "kThumb2" ELSE kRuntimeISA)

C1_Witness ==
    /\ handle = "live" /\ updates > 0 /\ ~aborted
    /\ kRuntimeISA = "kArm"
    /\ runtime_options # << >>
    /\ compiler_options_.instruction_set = "kThumb2"

\* C2: after jit_load and after every jit_update_options the held options
\* have compile_pic = FALSE, whatever options the runtime supplied.
C2_NeverPic ==
    handle = "live" => compiler_options_.compile_pic = FALSE

C2_Witness ==
    /\ handle = "live" /\ updates > 0 /\ ~aborted
    /\ HasOption(runtime_options, "--compile-pic")
    /\ compiler_options_.compile_pic = FALSE

\* C3: after a run whose options hold no --debuggable, debuggable equals the
\* runtime's IsJavaDebuggable() as it was during that run.
C3_DebuggableTracksRuntime ==
    (handle = "live" /\ ~aborted /\ ~HasOption(runtime_options, "--debuggable")) =>
        compiler_options_.debuggable = run_debuggable

\* the options a new JitCompiler resolves from the options and the runtime
\* state of the last run
FreshlyResolved ==
    ParseCompilerOptions(NewCompilerOptions(kRuntimeISA), "nullptr", runtime_options,
                         run_debuggable, image_location, kRuntimeISA).co

\* C7: after any jit_update_options the held options, which compiles read,
\* equal the options a new JitCompiler would resolve from the options and
\* runtime state of that last run.
C7_OnlyLastResolution ==
    (handle = "live" /\ ~aborted /\ updates > 0) =>
        compiler_options_ = FreshlyResolved

----------------------------------------------------------------------------
(* Properties of SpecScan *)

IsScanned(tok) == tok.key \in {VariantPrefix, FeaturesPrefix}

\* the variant and features options of the run, in order
Scanned == SelectSeq(runtime_options, IsScanned)

IsVariant(tok) == tok.key = VariantPrefix
IsFeatures(tok) == tok.key = FeaturesPrefix

\* a variant the configured instruction set knows, a feature string that parses
WellFormed(tok) ==
    \/ ~IsScanned(tok)
    \/ IsVariant(tok) /\ tok.val \in KnownVariants(compiler_options_.instruction_set)
    \/ IsFeatures(tok) /\ tok.val \in KnownFeatures

Stored == upc = "stored"

ResolvedFeatures == compiler_options_.instruction_set_features

\* C4: one valid features option X and no variant gives "default" with X; a
\* valid variant V then a valid features option X gives V with X; one valid
\* variant V gives V with nothing added; no variant and no features option
\* gives FromCppDefines().
C4_FeatureSet ==
    Stored =>
        /\ (Len(Scanned) = 1 /\ IsFeatures(Scanned[1]) /\ WellFormed(Scanned[1]))
              => ResolvedFeatures =
                    [variant |-> "default", overlay |-> << Scanned[1].val >>]
        /\ (Len(Scanned) = 2 /\ IsVariant(Scanned[1]) /\ WellFormed(Scanned[1])
                             /\ IsFeatures(Scanned[2]) /\ WellFormed(Scanned[2]))
              => ResolvedFeatures =
                    [variant |-> Scanned[1].val, overlay |-> << Scanned[2].val >>]
        /\ (Len(Scanned) = 1 /\ IsVariant(Scanned[1]) /\ WellFormed(Scanned[1]))
              => ResolvedFeatures = [variant |-> Scanned[1].val, overlay |-> << >>]
        /\ Scanned = << >> => ResolvedFeatures = FromCppDefines

C4_Witness ==
    /\ Stored
    /\ Len(Scanned) = 2 /\ Len(runtime_options) = 3
    /\ IsVariant(Scanned[1]) /\ WellFormed(Scanned[1])
    /\ IsFeatures(Scanned[2]) /\ WellFormed(Scanned[2])
    /\ ResolvedFeatures = [variant |-> "silvermont", overlay |-> << "popcnt" >>]

\* C5: a malformed variant option followed by a valid features option X
\* resolves, without abort, to "default" with X.
C5_MalformedVariantThenFeatures ==
    (/\ Len(Scanned) = 2
     /\ IsVariant(Scanned[1]) /\ ~WellFormed(Scanned[1])
     /\ IsFeatures(Scanned[2]) /\ WellFormed(Scanned[2]))
    => /\ ~aborted
       /\ Stored => ResolvedFeatures =
                       [variant |-> "default", overlay |-> << Scanned[2].val >>]

C5_Witness ==
    /\ Stored /\ ~aborted
    /\ Len(Scanned) = 2
    /\ IsVariant(Scanned[1]) /\ ~WellFormed(Scanned[1])
    /\ IsFeatures(Scanned[2]) /\ WellFormed(Scanned[2])
    /\ ResolvedFeatures.variant = "default"

\* C6: the resolved feature set equals the one resolved from the same options
\* with every malformed variant or features option removed.
C6_MalformedOnlyDropped ==
    Stored =>
        ResolvedFeatures =
            FeaturesOrCppDefines(ScanOptions(Null, compiler_options_.instruction_set,
                                             SelectSeq(runtime_options, WellFormed)))

----------------------------------------------------------------------------
(* Properties of SpecConc *)

\* the calls to the backend made by the current or last call of thread t
JitCompileCalls(t) == { i \in 1..Len(calls[t]) : calls[t][i].call = "JitCompile" }

\* the names of what the current or last call of thread t did, in order
CallOrder(t) == [i \in 1..Len(calls[t]) |-> calls[t][i].call]

\* the TimingLoggers the current or last call of thread t gave to the Jit
TimingsOf(t) ==
    { i \in 1..Len(timings) : timings[i].thread = t /\ timings[i].call = compiles[t] }

\* C8: a call of jit_compile_method calls JitCompile exactly once and returns
\* the boolean JitCompile returned.
C8_ReturnsBackendResult ==
    \A t \in Threads :
        /\ cpc[t] \notin {"idle"} => Cardinality(JitCompileCalls(t)) = 1
        /\ cpc[t] = "returned" =>
              \A i \in JitCompileCalls(t) : retval[t] = calls[t][i].result

C8_Witness ==
    \E t, u \in Threads :
        /\ cpc[t] = "returned" /\ calls[t][1].result = FALSE /\ retval[t] = FALSE
        /\ cpc[u] = "returned" /\ calls[u][1].result = TRUE /\ retval[u] = TRUE

\* C9: in every call, whatever JitCompile returned, TrimMaps runs once on the
\* calling thread after JitCompile and before the return, and one TimingLogger
\* holding the phases Compiling, TrimMaps is given to AddTimingLogger after
\* the trim and before the return.
C9_TrimThenTiming ==
    \A t \in Threads :
        /\ \A i \in 1..Len(calls[t]) : calls[t][i].by = t
        /\ cpc[t] = "report" =>
              /\ CallOrder(t) = << "JitCompile", "TrimMaps" >>
              /\ TimingsOf(t) = {}
        /\ cpc[t] \in {"return", "returned"} =>
              /\ CallOrder(t) = << "JitCompile", "TrimMaps", "AddTimingLogger" >>
              /\ Cardinality(TimingsOf(t)) = 1
              /\ \A i \in TimingsOf(t) :
                    /\ timings[i].phases = << "Compiling", "TrimMaps" >>
                    /\ timings[i].name = TimingLoggerName

C9_Witness ==
    \E t \in Threads :
        /\ cpc[t] = "returned" /\ retval[t] = FALSE
        /\ CallOrder(t) = << "JitCompile", "TrimMaps", "AddTimingLogger" >>
        /\ Cardinality(TimingsOf(t)) = 1

\* what a compile must be passed: options of a finished run (no PIC, a feature
\* set) and no logger or an opened one
ResolvedUse(u) ==
    /\ u.options.compile_pic = FALSE
    /\ u.options.instruction_set_features # Null
    /\ u.logger \in {"nullptr", "open"}

\* C10: when the caller keeps jit_update_options apart from the compiles,
\* every compile is passed and reads options of a finished run and a logger
\* that is absent or opened.
C10_SerialisedReadsResolved ==
    serialised => \A t \in Threads : used[t] # NoUse => ResolvedUse(used[t])

\* a compile before and a compile after a jit_update_options that opened a log
C10_Witness ==
    /\ serialised /\ updates > 0 /\ upc = "idle"
    /\ \E t, u \in Threads :
          /\ cpc[t] = "returned" /\ used[t].logger = "nullptr"
          /\ cpc[u] = "returned" /\ used[u].logger = "open"
          /\ used[u].options = compiler_options_

\* C10, second half: without that discipline a compile can be passed options
\* in the middle of a run, or a logger that is not opened yet; TLC reaches
\* this state in SpecConc (the invariant ~C10_RaceRead fails).
C10_RaceRead ==
    /\ ~serialised
    /\ \E t \in Threads : used[t] # NoUse /\ ~ResolvedUse(used[t])

C10_NoRaceRead == ~C10_RaceRead

\* C11: between entry points a JitLogger is held (and so passed to JitCompile
\* by a compile) only if generate_debug_info is true at that time.
C11_LogOnlyWithDebugInfo ==
    (handle = "live" /\ ~aborted /\ jit_logger_ # "nullptr") =>
        compiler_options_.generate_debug_info

----------------------------------------------------------------------------
(* Properties of the driver's dedupe switch *)

\* C12: from jit_load to jit_unload, through updates and compiles, dedupe is
\* disabled, and every successfully compiled method has an entry whose storage
\* no other method's entry shares, although all the code is byte-identical.
C12_DedupeDisabled ==
    handle = "live" =>
        /\ dedupe_enabled = "false"
        /\ \A t \in Threads :
              (cpc[t] = "returned" /\ retval[t]) =>
                  \E e \in compiled_methods : e.method = << t, compiles[t] >>
        /\ \A e1, e2 \in compiled_methods :
              /\ e1.storage.code = e2.storage.code
              /\ e1.method # e2.method => e1.storage # e2.storage

C12_Witness ==
    /\ updates > 0 /\ upc = "idle"
    /\ \A t \in Threads : cpc[t] = "returned" /\ retval[t]
    /\ Cardinality(compiled_methods) = NumThreads

----------------------------------------------------------------------------
(* Properties of jit_types_loaded *)

\* C13: a jit_types_loaded call made while generate_debug_info is true
\* registers exactly one entry, with no code address; a call made while it is
\* false registers nothing and changes nothing; no other entry point, update
\* and unload included, changes what is registered.
C13_TypesRegistered ==
    [][ IF types_loaded' # types_loaded
        THEN /\ UNCHANGED << facadeVars, runVars, threadVars, kRuntimeISA,
                             java_debuggable, image_location, runtime_options >>
             /\ IF compiler_options_.generate_debug_info
                THEN /\ Len(native_debug_info') = Len(native_debug_info) + 1
                     /\ SubSeq(native_debug_info', 1, Len(native_debug_info))
                           = native_debug_info
                     /\ native_debug_info'[Len(native_debug_info')].code_ptr = "nullptr"
                ELSE native_debug_info' = native_debug_info
        ELSE native_debug_info' = native_debug_info ]_vars

C13_Witness ==
    /\ handle = "deleted" /\ updates > 0
    /\ types_loaded = 2 /\ Len(native_debug_info) = 1
    /\ native_debug_info[1].code_ptr = "nullptr"

----------------------------------------------------------------------------
(* Properties of FairSpecConc *)

\* the calls of the given kind thread t's current CompileMethod call has made
CallsMade(t, kind) == { i \in 1..Len(calls[t]) : calls[t][i].call = kind }

\* C14: while the process lives, every CompileMethod call whose JitCompile has
\* returned goes on, on each of the concurrent threads, to return a boolean,
\* the result of JitCompile, having trimmed the maps once and handed its timing
\* record over once.
C14_CompileReturns ==
    \A t \in Threads :
        (cpc[t] = "trim") ~>
            \/ aborted
            \/ /\ cpc[t] = "returned"
               /\ retval[t] \in BOOLEAN
               /\ Cardinality(CallsMade(t, "TrimMaps")) = 1
               /\ Cardinality(CallsMade(t, "AddTimingLogger")) = 1

C14_Witness ==
    /\ \A t \in Threads : cpc[t] = "returned"
    /\ \E t, u \in Threads : retval[t] /\ ~retval[u]
    /\ Len(timings) = NumThreads

----------------------------------------------------------------------------
(* Properties of the fatal path of ParseCompilerOptions *)

\* the step is a run of ParseCompilerOptions, in jit_load or jit_update_options
IsRun == (handle = "none" /\ (handle' = "live" \/ aborted')) \/ updates' # updates

\* C15: a run ends the process exactly when the structured parse of its
\* options fails, malformed variant and features options never do; the run
\* that ends it has done nothing past the parse (compile_pic, debuggable, the
\* feature set and the logger are as before it), and no entry point does
\* anything afterwards.
C15_AbortIffBaselineFails ==
    [][ /\ ~aborted
        /\ IsRun => (aborted' <=> ~BaselineParses(runtime_options'))
        /\ aborted' =>
              /\ IsRun
              /\ [compiler_options_' EXCEPT !.inline_max_code_units = 0]
                    = [compiler_options_ EXCEPT !.inline_max_code_units = 0]
              /\ jit_logger_' = jit_logger_
              /\ logs_dropped' = logs_dropped ]_vars

C15_Witness ==
    /\ aborted /\ updates > 0
    /\ ~BaselineParses(runtime_options)
    /\ jit_logger_ = "open" /\ logs_dropped = 0

----------------------------------------------------------------------------
(* Properties of the inline budget *)

\* C16: after a run whose options name no inline budget the held budget is
\* kDefaultInlineMaxCodeUnits, the "unset" value, also when the run before it
\* had resolved a budget an option named.
C16_InlineBudgetUnset ==
    (HasRun /\ ~aborted /\ ~HasOption(runtime_options, InlinePrefix)) =>
        compiler_options_.inline_max_code_units = kDefaultInlineMaxCodeUnits

C16_Witness ==
    /\ handle = "live" /\ ~aborted /\ updates > 0
    /\ runtime_options # << >> /\ ~HasOption(runtime_options, InlinePrefix)
    /\ compiler_options_.inline_max_code_units = kDefaultInlineMaxCodeUnits

----------------------------------------------------------------------------
(* Properties of the JitLogger *)

\* C17: no JitLogger is destroyed with its log open when a run opens a new
\* one, and once jit_unload has returned the log that was opened is closed,
\* also when an update has turned generate_debug_info off in between.
C17_EveryLogClosed ==
    /\ logs_dropped = 0
    /\ handle = "deleted" => jit_logger_ \in {"nullptr", "closed"}

----------------------------------------------------------------------------
(* Properties of SpecScanAnyIsa *)

\* C18: whatever the options and whether or not FromVariant can build the
\* "default" variant of the instruction set, the loop never calls
\* AddFeaturesFromString through a null instruction_set_features.
C18_FeaturesNeverOnNull ==
    instruction_set_features # NullDeref

\* C19: after jit_load and any jit_update_options calls, generate_debug_info
\* true means jit_logger_ holds a JitLogger whose log is open, so the CloseLog
\* of ~JitCompiler is never called through a null jit_logger_.
C19_FlagImpliesOpenLog ==
    /\ (handle = "live" /\ ~aborted /\ compiler_options_.generate_debug_info) =>
          jit_logger_ = "open"
    /\ handle = "deleted" =>
          /\ ~aborted
          /\ compiler_options_.generate_debug_info => jit_logger_ = "closed"

C19_Witness ==
    /\ handle = "deleted" /\ updates > 0
    /\ compiler_options_.generate_debug_info
    /\ jit_logger_ = "closed"

====
